---- MODULE Spec2Model ----
(***************************************************************************)
(* InstaCaption AI (src/instacaption_enterprise.py, lines 1-449): the      *)
(* persistent store, the ad reward engine, the caption generator, the      *)
(* end-user flow and the admin flow, as a state machine.                   *)
(*                                                                         *)
(* Text is a sequence of one-character strings, so that split, capitalize  *)
(* and join are computed as str does them.  Literal parts of an f-string   *)
(* are kept as one element.  Style names drop their emoji prefix, and an    *)
(* emoji inside a rendering is written by its name between colons.         *)
(***************************************************************************)
EXTENDS Integers, Sequences, FiniteSets, TLC

\* ------------------------------------------------------------------ bounds
\* Most words in a sampled model description.
MaxWords == 6

\* ------------------------------------------------------ 4. AI caption engine
\* [:5] of the keyword list.
KeywordLimit == 5
\* len(word) > 3.
KeywordMinLen == 3

Styles == <<"Smart", "Funny", "Inspirational", "Minimalist", "Professional", "Dramatic">>
StyleNames == {Styles[i] : i \in 1..Len(Styles)}
\* Style selectors a caller may pass: the six names and two that are not styles.
StyleInputs == StyleNames \cup {"Unknown", ""}

\* str.isspace for the characters of the samples.
IsSpace(c) == c = " "

UpperOf(c) ==
    CASE c = "d" -> "D" [] c = "t" -> "T" [] c = "h" -> "H" [] c = "l" -> "L"
      [] c = "o" -> "O" [] OTHER -> c
LowerOf(c) ==
    CASE c = "D" -> "d" [] c = "T" -> "t" [] c = "H" -> "h" [] c = "L" -> "l"
      [] c = "O" -> "o" [] OTHER -> c

\* str.capitalize(): the first character upper-cased, the rest lower-cased.
Capitalize(t) ==
    [i \in 1..Len(t) |-> IF i = 1 THEN UpperOf(t[i]) ELSE LowerOf(t[i])]

\* Index of the first occurrence of character c in t, 0 when there is none.
RECURSIVE FindFrom(_, _, _)
FindFrom(t, c, i) ==
    IF i > Len(t) THEN 0
    ELSE IF t[i] = c THEN i
    ELSE FindFrom(t, c, i + 1)
Find(t, c) == FindFrom(t, c, 1)

\* str.split(sep, 1): at most one cut, at the first sep.
SplitOnce(t, sep) ==
    LET k == Find(t, sep)
    IN  IF k = 0 THEN <<t>>
        ELSE <<SubSeq(t, 1, k - 1), SubSeq(t, k + 1, Len(t))>>

\* str.split(sep)[0]: the text before the first sep.
BeforeFirst(t, sep) ==
    LET k == Find(t, sep)
    IN  IF k = 0 THEN t ELSE SubSeq(t, 1, k - 1)

\* str.split(): the maximal runs of non-whitespace characters, in order.
RECURSIVE SplitScan(_, _, _, _)
SplitScan(t, i, cur, acc) ==
    IF i > Len(t) THEN (IF cur = <<>> THEN acc ELSE Append(acc, cur))
    ELSE IF IsSpace(t[i])
         THEN SplitScan(t, i + 1, <<>>, IF cur = <<>> THEN acc ELSE Append(acc, cur))
         ELSE SplitScan(t, i + 1, Append(cur, t[i]), acc)
SplitWhitespace(t) == SplitScan(t, 1, <<>>, <<>>)

\* [x for x in xs if len(x) > 3]
RECURSIVE LongWords(_)
LongWords(ws) ==
    IF ws = <<>> THEN <<>>
    ELSE IF Len(Head(ws)) > KeywordMinLen
         THEN <<Head(ws)>> \o LongWords(Tail(ws))
         ELSE LongWords(Tail(ws))

\* xs[:n]
Take(xs, n) == SubSeq(xs, 1, IF Len(xs) < n THEN Len(xs) ELSE n)

\* sep.join(xs), for sequences of texts.
RECURSIVE Join(_, _)
Join(xs, sep) ==
    IF xs = <<>> THEN <<>>
    ELSE IF Len(xs) = 1 THEN Head(xs)
    ELSE Head(xs) \o sep \o Join(Tail(xs), sep)

\* An exception raised out of a call.
Raise(kind) == [raised |-> kind]
Raised(r) == "raised" \in DOMAIN r
\* A call that returned its (final_caption, hashtags) pair.
Returned(r) == "caption" \in DOMAIN r

\* keywords = [word for word in result.split() if len(word) > 3][:5]
Keywords(result) == Take(LongWords(SplitWhitespace(result)), KeywordLimit)

\* hashtags = " ".join(f"#{word}" ...) + " #InstaAI #SocialMedia"
Hashtags(result) ==
    LET keywords == Keywords(result)
        tagged == [i \in 1..Len(keywords) |-> <<"#">> \o keywords[i]]
    IN  Join(tagged, <<" ">>) \o <<" ", "#InstaAI", " ", "#SocialMedia">>

\* The six renderings of the styles dict.  The dict literal evaluates every
\* entry, so the Funny entry's [1] is evaluated whatever style is selected.
StyleTable(result) ==
    [Smart         |-> Capitalize(result),
     Funny         |-> <<"LOL when I ">> \o SplitOnce(result, " ")[2] \o <<" :joy:">>,
     Inspirational |-> <<"In this moment: ">> \o result \o <<". Cherish the journey. :sparkles:">>,
     Minimalist    |-> BeforeFirst(result, ","),
     Professional  |-> <<"High-quality image showing: ">> \o result,
     Dramatic      |-> <<"OMG! You won't BELIEVE what happens when ">> \o result \o <<"!!!">>]

\* styles.get(style, styles["Smart"])
StyleLookup(styles, style) ==
    IF style \in DOMAIN styles THEN styles[style] ELSE styles["Smart"]

\* CaptionGenerator.generate_caption, on the model's description `result`.
generate_caption(result, style) ==
    IF Len(SplitOnce(result, " ")) < 2
    THEN Raise("IndexError")
    ELSE [caption  |-> StyleLookup(StyleTable(result), style),
          hashtags |-> Hashtags(result)]

\* ------------------------------------------------------------ model bounds
\* Most ad_configs rows the admin form inserts.
MaxConfigs == 2
\* Most captions rows.
MaxCaptions == 6
\* Most ad_events rows.
MaxAdEvents == 2
\* Most coins an admin grants one user in all.
MaxGranted == 1

\* Browser sessions, and the device tokens md5(str(time.time()))[:12] can give
\* them: two first visits in the same clock reading derive the same token.
Sessions == {"s1", "s2"}
Tokens == {"t1", "t2"}

\* Samples of the admin form's inputs (line 218-223): the platform select box,
\* the priority slider 1..5, the ads-per-use slider 0..5, the coins slider
\* 1..10 and the activate checkbox.
PlatformChoices == {"start.io"}
PriorityChoices == {1, 2}
AdsPerUseChoices == {0, 1, 2}
MinCoinsChoices == {1, 2}
ActiveChoices == {0, 1}
FormInputs ==
    [priority : PriorityChoices, is_active : ActiveChoices,
     ads_per_use : AdsPerUseChoices, min_coins : MinCoinsChoices]
\* A sample of them, for the flows that follow sessions as well.
FormSamples ==
    { [priority |-> 1, is_active |-> 1, ads_per_use |-> 0, min_coins |-> 1],
      [priority |-> 1, is_active |-> 1, ads_per_use |-> 1, min_coins |-> 2],
      [priority |-> 2, is_active |-> 1, ads_per_use |-> 2, min_coins |-> 1],
      [priority |-> 2, is_active |-> 0, ads_per_use |-> 1, min_coins |-> 2],
      [priority |-> 1, is_active |-> 0, ads_per_use |-> 0, min_coins |-> 1] }
\* Samples of the "Coins to add" number input (1..100).
GrantChoices == {1, 2}

\* Model descriptions the end-user flow's captioning model returns: one with a
\* space and one without.
DescSamples == { <<"a", " ", "t", "r", "e", "e", "s">>, <<"t", "r", "e", "e">> }
\* Styles the radio offers (a sample of the six).
RadioSamples == {"Funny"}

\* Words, separators and leading text of the descriptions generate_caption is
\* checked on: words of 3, 4 and 5 characters, with upper case and a comma.
WordSamples == { <<"D", "o", "g">>, <<"t", "r", "e", "e">>, <<"h", "i", ",", "L", "L">> }
SepSamples == { <<" ">>, <<" ", " ">> }
LeadSamples == { <<>>, <<" ">> }

\* SQL NULL in the last_active column; the clock's stamps start at 1.
NULL == 0

\* ---------------------------------------------------------------- the state
VARIABLES
    users,      \* table users: rows in id order (id = position, AUTOINCREMENT)
    ad_configs, \* table ad_configs, likewise
    ad_events,  \* table ad_events
    captions,   \* table captions
    session,    \* st.session_state of each browser session
    now,        \* the clock datetime.now() reads
    outcome,    \* how the last render cycle that handled a press ended
    granted,    \* history: coins admin grants gave each users id
    earned,     \* history: min_coins of the platform selected, summed per users id
    completed,  \* history: successful show_ads_to_user returns per users id
    since_gate, \* history: a session's ad completions since its last caption
    call,       \* the generate_caption call under test (caption checks)
    files,      \* the files the admin flow writes, by name
    saved,      \* history: the values of the last business-settings save
    env_password, \* the ADMIN_PASSWORD environment variable
    admin_pass, \* the dashboard's "Admin Password" text input
    db_lock,    \* the connection holding sqlite's write lock, if any
    conn        \* each session's AdMonetizationEngine connection (statement steps)

vars == <<users, ad_configs, ad_events, captions, session, now, outcome,
          granted, earned, completed, since_gate, call,
          files, saved, env_password, admin_pass, db_lock, conn>>

\* What lies beside the tables and the sessions.
others == <<files, saved, env_password, admin_pass, db_lock, conn>>

store == <<users, ad_configs, ad_events, captions>>
history == <<granted, earned, completed, since_gate>>

UserIds == 1..Cardinality(Sessions)

\* -------------------------------------------------------- 2. database setup
\* INSERT INTO users (device_id): the column defaults of CREATE TABLE users.
NewUser(id, device_id) ==
    [id |-> id, device_id |-> device_id, last_active |-> NULL,
     caption_count |-> 0, ad_watched |-> 0, coins |-> 0]

\* The users id of a device token, 0 when no row has it (device_id is UNIQUE).
UserIdOf(device_id) ==
    IF \E i \in 1..Len(users) : users[i].device_id = device_id
    THEN CHOOSE i \in 1..Len(users) : users[i].device_id = device_id
    ELSE 0

\* A session before its first render.
\* st.session_state before the first render: no key is set.  `keys` holds the
\* keys the session state has; the value kept for an absent key is never read.
NoAd == [platform |-> "", coins |-> 0]
FreshSession ==
    [keys |-> {}, device_id |-> "", coins |-> 0, caption_count |-> 0,
     ads_watched |-> 0, user_id |-> 0, current_ad |-> NoAd]

\* 'key' in st.session_state
Has(ss, key) == key \in ss.keys

NoOutcome == [op |-> "none", who |-> "none", result |-> "none"]

\* No file written yet; ADMIN_PASSWORD unset; the password input empty; no
\* engine connection open.
FileNames ==
    {"business_config.json", "user_data_export.zip", "users.csv", "captions.csv", "backup.sql"}
NoFile == [exists |-> FALSE, content |-> <<>>]
NoSave ==
    [made |-> FALSE, free_tier_ads |-> 0, premium_price |-> 0, premium_benefits |-> <<>>,
     shrunk |-> FALSE]
EnvUnset == [set |-> FALSE, value |-> ""]
NoConn == [pc |-> "closed", user_id |-> 0, platform_id |-> 0, reward_coins |-> 0,
           users |-> <<>>, ad_events |-> <<>>, overlap |-> FALSE]
NoLock == "none"
InitOthers ==
    /\ files = [f \in FileNames |-> NoFile]
    /\ saved = NoSave
    /\ env_password = EnvUnset
    /\ admin_pass = ""
    /\ db_lock = NoLock
    /\ conn = [s \in Sessions |-> NoConn]
NoCall == [result |-> <<>>, style |-> "", returned |-> [pending |-> FALSE]]

Init ==
    /\ users = <<>>
    /\ ad_configs = <<>>
    /\ ad_events = <<>>
    /\ captions = <<>>
    /\ session = [s \in Sessions |-> FreshSession]
    /\ now = 1
    /\ outcome = NoOutcome
    /\ granted = [u \in UserIds |-> 0]
    /\ earned = [u \in UserIds |-> 0]
    /\ completed = [u \in UserIds |-> 0]
    /\ since_gate = [s \in Sessions |-> 0]
    /\ call = NoCall
    /\ InitOthers

\* --------------------------------------------------- 3. enterprise ad system
\* Whether sequence f of row positions lists rows in ascending priority.
SortedByPriority(cfgs, f) ==
    \A a, b \in DOMAIN f : a < b => cfgs[f[a]].priority <= cfgs[f[b]].priority

\* Mutant: the query without WHERE is_active=1.
get_all_ad_platforms(cfgs) ==
    LET n == Len(cfgs)
        orders == {f \in [1..n -> 1..n] :
                      /\ \A a, b \in 1..n : a # b => f[a] # f[b]
                      /\ SortedByPriority(cfgs, f)}
    IN  {[k \in 1..n |-> cfgs[f[k]]] : f \in orders}

\* Mutant: the query without ORDER BY priority (rows in id order).
get_active_unordered(cfgs) ==
    LET active == {i \in 1..Len(cfgs) : cfgs[i].is_active = 1}
        n == Cardinality(active)
        orders == {f \in [1..n -> active] : \A a, b \in 1..n : a < b => f[a] < f[b]}
    IN  {[k \in 1..n |-> cfgs[f[k]]] : f \in orders}

\* AdMonetizationEngine.get_active_ad_platforms: SELECT * FROM ad_configs WHERE
\* is_active=1 ORDER BY priority.  SQL leaves the order of rows of equal
\* priority open, so this is the set of row lists the query can return.
get_active_ad_platforms(cfgs) ==
    LET active == {i \in 1..Len(cfgs) : cfgs[i].is_active = 1}
        n == Cardinality(active)
        orders == {f \in [1..n -> active] :
                      /\ \A a, b \in 1..n : a # b => f[a] # f[b]
                      /\ SortedByPriority(cfgs, f)}
    IN  {[k \in 1..n |-> cfgs[f[k]]] : f \in orders}

\* Mutant: the tuple unpacked one column off, the reward read from ads_per_use.
RewardCoinsFromAdsPerUse(platform) == platform.ads_per_use

\* platform_id, ..., min_coins = platform; reward_coins = min_coins
RewardCoins(platform) == platform.min_coins

\* st.session_state['current_ad'] = {...} (start_time is read nowhere).
RecordCurrentAd(ss, platform) ==
    [ss EXCEPT !.keys = @ \cup {"current_ad"},
               !.current_ad = [platform |-> platform.platform_name,
                               coins |-> platform.min_coins]]

\* Mutant: the UPDATE without its WHERE clause.
CreditEveryUser(us, user_id, reward_coins) ==
    [i \in 1..Len(us) |->
        [us[i] EXCEPT !.coins = @ + reward_coins, !.ad_watched = @ + 1]]

\* UPDATE users SET coins = coins + ?, ad_watched = ad_watched + 1 WHERE id=?
CreditUser(us, user_id, reward_coins) ==
    [i \in 1..Len(us) |->
        IF us[i].id = user_id
        THEN [us[i] EXCEPT !.coins = @ + reward_coins, !.ad_watched = @ + 1]
        ELSE us[i]]

\* INSERT INTO ad_events (user_id, platform_id, coins_earned)
AdEventRow(user_id, platform, reward_coins) ==
    [user_id |-> user_id, platform_id |-> platform.id, coins_earned |-> reward_coins]

\* ------------------------------------------------------- 6. main user app
\* ad_req = SELECT ads_per_use ... WHERE is_active=1 ORDER BY priority LIMIT 1;
\* ads_required = ad_req[0] if ad_req else 1: the values the read can give.
AdsRequiredChoices(cfgs) ==
    {IF p = <<>> THEN 1 ELSE p[1].ads_per_use : p \in get_active_ad_platforms(cfgs)}

\* The condition under which the warning and the Watch Ad buttons are rendered.
NeedsAds(ss) == ss.caption_count > 0 /\ ss.caption_count % 3 = 0

\* disabled= of the Generate button.
GenerateDisabled(ss, ads_required) ==
    ss.caption_count % 3 = 0 /\ ss.ads_watched < ads_required

\* Mutant: the caller counting the ad without testing `success`.
AfterShowAdsUnchecked(ss, success) == [ss EXCEPT !.ads_watched = @ + 1]

\* if success: coins += current_ad['coins']; ads_watched += 1
AfterShowAds(ss, success) ==
    IF success
    THEN [ss EXCEPT !.coins = @ + ss.current_ad.coins, !.ads_watched = @ + 1]
    ELSE ss

\* The session's first render: the session fields are set, then the users row
\* is inserted; a token some row already holds fails the UNIQUE constraint,
\* which ends the render cycle with the fields set and no row added.
FirstVisit(s, tok) ==
    /\ ~Has(session[s], "device_id")
    /\ session' = [session EXCEPT ![s] =
            [@ EXCEPT !.keys = @ \cup {"device_id", "coins", "caption_count", "ads_watched"},
                      !.device_id = tok, !.coins = 0,
                      !.caption_count = 0, !.ads_watched = 0]]
    /\ IF UserIdOf(tok) # 0
       THEN /\ users' = users
            /\ outcome' = [op |-> "first_visit", who |-> s, result |-> "IntegrityError"]
       ELSE /\ users' = Append(users, NewUser(Len(users) + 1, tok))
            /\ outcome' = [op |-> "first_visit", who |-> s, result |-> "ok"]
    /\ UNCHANGED <<ad_configs, ad_events, captions, now, history, call, others>>

\* AdMonetizationEngine.show_ads_to_user(user_id) and the caller's lines after
\* it, with `platforms` the rows get_active_ad_platforms returned.
show_ads_to_user(s, user_id, platforms) ==
    IF platforms = <<>>
    THEN /\ session' = [session EXCEPT ![s] = AfterShowAds(session[s], FALSE)]
         /\ outcome' = [op |-> "watch_ad", who |-> s, result |-> "no_platforms"]
         /\ UNCHANGED <<store, now, history, call, others>>
    ELSE LET platform == platforms[1]
             reward_coins == RewardCoins(platform)
         IN  /\ Len(ad_events) < MaxAdEvents
             /\ users' = CreditUser(users, user_id, reward_coins)
             /\ ad_events' = Append(ad_events, AdEventRow(user_id, platform, reward_coins))
             /\ session' = [session EXCEPT ![s] =
                                AfterShowAds(RecordCurrentAd(session[s], platform), TRUE)]
             /\ earned' = [earned EXCEPT ![user_id] = @ + ad_configs[platform.id].min_coins]
             /\ completed' = [completed EXCEPT ![user_id] = @ + 1]
             /\ since_gate' = [since_gate EXCEPT ![s] = @ + 1]
             /\ outcome' = [op |-> "watch_ad", who |-> s, result |-> "ok"]
             /\ UNCHANGED <<ad_configs, captions, now, granted, call, others>>

\* A press of one of the "Watch Ad i/n" buttons.  The argument
\* st.session_state.user_id is evaluated before the call: an absent key raises
\* AttributeError and the render cycle ends there.
PressWatchAd(s) ==
    /\ Has(session[s], "device_id")
    /\ NeedsAds(session[s])
    /\ \E ads_required \in AdsRequiredChoices(ad_configs) : ads_required >= 1
    /\ IF ~Has(session[s], "user_id")
       THEN /\ outcome' = [op |-> "watch_ad", who |-> s, result |-> "AttributeError"]
            /\ UNCHANGED <<store, session, now, history, call, others>>
       ELSE \E platforms \in get_active_ad_platforms(ad_configs) :
                show_ads_to_user(s, session[s].user_id, platforms)

\* INSERT INTO captions (user_id, image_hash, caption, hashtags)
CaptionRow(user_id, made) ==
    [user_id |-> user_id, image_hash |-> "img",
     caption |-> made.caption, hashtags |-> made.hashtags]

\* UPDATE users SET caption_count = caption_count + 1, last_active = ?
\* WHERE device_id = ?
CountCaption(us, device_id, stamp) ==
    [i \in 1..Len(us) |->
        IF us[i].device_id = device_id
        THEN [us[i] EXCEPT !.caption_count = @ + 1, !.last_active = stamp]
        ELSE us[i]]

\* A press of the Generate button while it is enabled: generate_caption on the
\* model's description, then the two statements, then the session counter.
PressGenerate(s, style, result) ==
    /\ Has(session[s], "device_id")
    /\ \E ads_required \in AdsRequiredChoices(ad_configs) :
            ~GenerateDisabled(session[s], ads_required)
    /\ LET made == generate_caption(result, style)
       IN  IF Raised(made)
           THEN /\ outcome' = [op |-> "generate", who |-> s, result |-> made.raised]
                /\ UNCHANGED <<store, session, now, history, call, others>>
           ELSE IF ~Has(session[s], "user_id")
           THEN /\ outcome' = [op |-> "generate", who |-> s, result |-> "AttributeError"]
                /\ UNCHANGED <<store, session, now, history, call, others>>
           ELSE /\ Len(captions) < MaxCaptions
                /\ captions' = Append(captions, CaptionRow(session[s].user_id, made))
                /\ users' = CountCaption(users, session[s].device_id, now)
                /\ now' = now + 1
                /\ session' = [session EXCEPT ![s].caption_count = @ + 1]
                /\ since_gate' = [since_gate EXCEPT ![s] = 0]
                /\ outcome' = [op |-> "generate", who |-> s, result |-> "ok"]
                /\ UNCHANGED <<ad_configs, ad_events, granted, earned, completed, call, others>>

\* ------------------------------------------- 5. enterprise admin dashboard
\* INSERT INTO ad_configs (...) from the "new_ad_platform" form.
ConfigRow(id, platform, priority, is_active, ads_per_use, min_coins) ==
    [id |-> id, platform_name |-> platform, priority |-> priority,
     is_active |-> is_active, ads_per_use |-> ads_per_use, min_coins |-> min_coins]

AdminInsertConfig(platform, priority, is_active, ads_per_use, min_coins) ==
    /\ Len(ad_configs) < MaxConfigs
    /\ ad_configs' = Append(ad_configs,
            ConfigRow(Len(ad_configs) + 1, platform, priority, is_active,
                      ads_per_use, min_coins))
    /\ outcome' = [op |-> "insert_config", who |-> "admin", result |-> "ok"]
    /\ UNCHANGED <<users, ad_events, captions, session, now, history, call, others>>

\* "Save Changes": one UPDATE ad_configs ... WHERE id=? per row of the edited
\* grid; the grid here differs from the table in row `id` at most.
AdminSaveChanges(id, priority, is_active, ads_per_use, min_coins) ==
    /\ ad_configs # <<>>
    /\ id \in 1..Len(ad_configs)
    /\ ad_configs' = [i \in 1..Len(ad_configs) |->
            IF ad_configs[i].id = id
            THEN [ad_configs[i] EXCEPT !.priority = priority, !.is_active = is_active,
                                       !.ads_per_use = ads_per_use, !.min_coins = min_coins]
            ELSE ad_configs[i]]
    /\ outcome' = [op |-> "save_changes", who |-> "admin", result |-> "ok"]
    /\ UNCHANGED <<users, ad_events, captions, session, now, history, call, others>>

\* "Add coins" / Apply: UPDATE users SET coins = coins + ? WHERE id=?
AdminAddCoins(user_id, coins) ==
    /\ users # <<>>
    /\ user_id \in 1..Len(users)
    /\ granted[user_id] + coins <= MaxGranted
    /\ users' = [i \in 1..Len(users) |->
            IF users[i].id = user_id THEN [users[i] EXCEPT !.coins = @ + coins]
            ELSE users[i]]
    /\ granted' = [granted EXCEPT ![user_id] = @ + coins]
    /\ outcome' = [op |-> "add_coins", who |-> "admin", result |-> "ok"]
    /\ UNCHANGED <<ad_configs, ad_events, captions, session, now,
                   earned, completed, since_gate, call, others>>

\* ------------------------------------------------------------ the program
\* The admin's ad platform panel, with the form and grid values drawn from `rows`.
ConfigStep(rows) ==
    \/ \E platform \in PlatformChoices, r \in rows :
            AdminInsertConfig(platform, r.priority, r.is_active, r.ads_per_use, r.min_coins)
    \/ \E id \in 1..MaxConfigs, r \in rows :
            AdminSaveChanges(id, r.priority, r.is_active, r.ads_per_use, r.min_coins)

GrantStep == \E user_id \in UserIds, coins \in GrantChoices : AdminAddCoins(user_id, coins)

\* The program as written: no statement assigns st.session_state.user_id, so
\* no session ever holds it, caption_count stays 0 and no Watch Ad button is
\* ever rendered.
Next ==
    \/ \E s \in Sessions, tok \in Tokens : FirstVisit(s, tok)
    \/ \E s \in Sessions, style \in RadioSamples, result \in DescSamples :
            PressGenerate(s, style, result)
    \/ ConfigStep(FormSamples)
    \/ GrantStep

Spec == Init /\ [][Next]_vars

\* The ad platform panel alone, over every combination of the sampled values.
NextAdmin == ConfigStep(FormInputs)

SpecAdmin == Init /\ [][NextAdmin]_vars

\* The session's link to its users row, which the end-user flow reads as
\* st.session_state.user_id (lines 397, 415) and never sets: the id of the row
\* holding the session's device token.
BindUserId(s) ==
    /\ Has(session[s], "device_id")
    /\ ~Has(session[s], "user_id")
    /\ UserIdOf(session[s].device_id) # 0
    /\ session' = [session EXCEPT ![s] =
            [@ EXCEPT !.keys = @ \cup {"user_id"},
                      !.user_id = UserIdOf(session[s].device_id)]]
    /\ outcome' = [op |-> "bind", who |-> s, result |-> "ok"]
    /\ UNCHANGED <<store, now, history, call, others>>

\* One session with its users id in place, through the gating cycles.
NextGate ==
    \/ \E tok \in Tokens : FirstVisit("s1", tok)
    \/ BindUserId("s1")
    \/ \E style \in RadioSamples, result \in DescSamples : PressGenerate("s1", style, result)
    \/ PressWatchAd("s1")
    \/ ConfigStep(FormSamples)

SpecGate == Init /\ [][NextGate]_vars

\* The reward engine called directly: AdMonetizationEngine.show_ads_to_user
\* applied in a session to the id of the users row holding the session's
\* device token, followed by the caller's lines 398-400.  (The Watch Ad
\* button's own call never gets this far: see PressWatchAd.)
CallShowAds(s) ==
    /\ Has(session[s], "device_id")
    /\ \E platforms \in get_active_ad_platforms(ad_configs) :
            show_ads_to_user(s, UserIdOf(session[s].device_id), platforms)

\* The form and grid values used beside the reward engine.
RewardSamples ==
    {r \in FormSamples : r.ads_per_use < 2 /\ (r.is_active = 1 \/ r.priority = 2)}

\* The reward engine, called in one session, beside a second device's first
\* visit and the program's own actions.
NextReward ==
    \/ FirstVisit("s1", "t1")
    \/ \E tok \in Tokens : FirstVisit("s2", tok)
    \/ CallShowAds("s1")
    \/ \E style \in RadioSamples, result \in DescSamples : PressGenerate("s1", style, result)
    \/ ConfigStep(RewardSamples)
    \/ GrantStep

SpecReward == Init /\ [][NextReward]_vars

\* ------------------------------- the reward engine, statement by statement
\* Each render cycle builds its own AdMonetizationEngine (line 393), so each
\* session works through its own sqlite3 connection (line 86).  The connection
\* is opened with the module's default transaction control: the first
\* UPDATE/INSERT opens a transaction, whose changes stay in the connection
\* until commit() (line 130), and takes the database's write lock, which a
\* second writer waits for (busy timeout) or gives up on with OperationalError.
\* conn[s].pc is the engine's position:
\*   "closed"   no call under way          "shown"    the ad timer has run out
\*   "credited" the UPDATE has run         "inserted" the INSERT has run
\*   "done"     committed, returned True   "failed"   a statement has raised

\* The tables, the write lock, the connections and the completion history.
Cur ==
    [users |-> users, ad_events |-> ad_events, db_lock |-> db_lock, conn |-> conn,
     completed |-> completed, earned |-> earned]

\* Mutant: writers that do not wait for the write lock.
CanWriteAlways(lock, s) == TRUE

\* Whether connection s can take sqlite's write lock.
CanWrite(lock, s) == lock \in {NoLock, s}

\* Mutant: a connection in autocommit mode, each statement committed at once.
StoreAutocommit(committed, pending) == pending

\* What the other connections read after a statement of an open transaction.
StoreAfterStatement(committed, pending) == committed

\* Whether another engine call for the same users id has shown its ad and not
\* yet written.
Overlaps(d, s) ==
    \E t \in Sessions \ {s} :
        d.conn[t].pc = "shown" /\ d.conn[t].user_id = d.conn[s].user_id

\* c.execute("UPDATE users SET coins = coins + ?, ad_watched = ad_watched + 1
\* WHERE id=?"): the sum is computed by the database on the row as committed.
UpdateEnabled(d, s) == d.conn[s].pc = "shown" /\ CanWrite(d.db_lock, s)
ExecUpdate(d, s) ==
    LET c == d.conn[s]
        pending == CreditUser(d.users, c.user_id, c.reward_coins)
    IN  [d EXCEPT !.db_lock = s,
                  !.users = StoreAfterStatement(d.users, pending),
                  !.conn[s] = [c EXCEPT !.pc = "credited", !.users = pending,
                                        !.overlap = Overlaps(d, s)]]

\* The UPDATE of a writer whose wait for the lock times out.
BusyEnabled(d, s) == d.conn[s].pc = "shown" /\ ~CanWrite(d.db_lock, s)
ExecBusy(d, s) == [d EXCEPT !.conn[s].pc = "failed"]

\* c.execute("INSERT INTO ad_events (user_id, platform_id, coins_earned) ...")
InsertEnabled(d, s) == d.conn[s].pc = "credited"
ExecInsert(d, s) ==
    LET c == d.conn[s]
        pending == Append(d.ad_events,
                          AdEventRow(c.user_id, [id |-> c.platform_id], c.reward_coins))
    IN  [d EXCEPT !.ad_events = StoreAfterStatement(d.ad_events, pending),
                  !.conn[s] = [c EXCEPT !.pc = "inserted", !.ad_events = pending]]

\* The INSERT raising (disk full, I/O error): commit() is not reached.
ExecInsertFails(d, s) == [d EXCEPT !.conn[s].pc = "failed"]

\* self.conn.commit(); return True, ...
CommitEnabled(d, s) == d.conn[s].pc = "inserted"
ExecCommit(d, s) ==
    LET c == d.conn[s]
    IN  [d EXCEPT !.users = c.users,
                  !.ad_events = c.ad_events,
                  !.db_lock = NoLock,
                  !.conn[s].pc = "done",
                  !.completed[c.user_id] = @ + 1,
                  !.earned[c.user_id] = @ + c.reward_coins]

\* The engine of a render cycle that ended in an exception is dropped: its
\* connection closes, which rolls an open transaction back and frees the lock.
DropEnabled(d, s) == d.conn[s].pc = "failed"
ExecDrop(d, s) ==
    [d EXCEPT !.db_lock = IF d.db_lock = s THEN NoLock ELSE @,
              !.conn[s] = [@ EXCEPT !.pc = "closed", !.users = <<>>, !.ad_events = <<>>]]

\* Every state one statement of one engine call away from d.
Successors(d) ==
    UNION { (IF UpdateEnabled(d, s) THEN {ExecUpdate(d, s)} ELSE {})
            \cup (IF BusyEnabled(d, s) THEN {ExecBusy(d, s)} ELSE {})
            \cup (IF InsertEnabled(d, s) THEN {ExecInsert(d, s), ExecInsertFails(d, s)} ELSE {})
            \cup (IF CommitEnabled(d, s) THEN {ExecCommit(d, s)} ELSE {})
            \cup (IF DropEnabled(d, s) THEN {ExecDrop(d, s)} ELSE {})
          : s \in Sessions }

\* Every state the engine calls under way can bring about from the states S,
\* in any interleaving of their statements.
RECURSIVE Interleavings(_)
Interleavings(S) ==
    LET T == S \cup UNION {Successors(d) : d \in S}
    IN  IF T = S THEN S ELSE Interleavings(T)

\* The engine calls that have shown their ad and not yet returned or raised.
InFlight == {s \in Sessions : conn[s].pc \in {"shown", "credited", "inserted"}}

Install(d) ==
    /\ users' = d.users
    /\ ad_events' = d.ad_events
    /\ db_lock' = d.db_lock
    /\ conn' = d.conn
    /\ completed' = d.completed
    /\ earned' = d.earned

\* show_ads_to_user(user_id) up to the end of the ad timer (lines 93-120),
\* called with the id of the users row holding the session's device token.
EngineBegin(s) ==
    /\ Has(session[s], "device_id")
    /\ conn[s].pc \in {"closed", "done"}
    /\ \E platforms \in get_active_ad_platforms(ad_configs) :
         IF platforms = <<>>
         THEN /\ session' = [session EXCEPT ![s] = AfterShowAds(session[s], FALSE)]
              /\ outcome' = [op |-> "watch_ad", who |-> s, result |-> "no_platforms"]
              /\ UNCHANGED <<store, now, history, call, others>>
         ELSE LET platform == platforms[1]
              IN  /\ Len(ad_events) + Cardinality(InFlight) < MaxAdEvents
                  /\ session' = [session EXCEPT ![s] = RecordCurrentAd(session[s], platform)]
                  /\ conn' = [conn EXCEPT ![s] =
                                 [NoConn EXCEPT !.pc = "shown",
                                                !.user_id = UserIdOf(session[s].device_id),
                                                !.platform_id = platform.id,
                                                !.reward_coins = RewardCoins(platform)]]
                  /\ outcome' = [op |-> "watch_ad", who |-> s, result |-> "ad_shown"]
                  /\ UNCHANGED <<store, now, history, call,
                                 files, saved, env_password, admin_pass, db_lock>>

\* What an engine statement leaves alone.
beside == <<ad_configs, captions, now, granted, call,
            files, saved, env_password, admin_pass>>

EngineUpdate(s) ==
    /\ UpdateEnabled(Cur, s)
    /\ Install(ExecUpdate(Cur, s))
    /\ UNCHANGED <<beside, session, since_gate, outcome>>

EngineBusy(s) ==
    /\ BusyEnabled(Cur, s)
    /\ Install(ExecBusy(Cur, s))
    /\ outcome' = [op |-> "watch_ad", who |-> s, result |-> "OperationalError"]
    /\ UNCHANGED <<beside, session, since_gate>>

EngineInsert(s) ==
    /\ InsertEnabled(Cur, s)
    /\ Install(ExecInsert(Cur, s))
    /\ UNCHANGED <<beside, session, since_gate, outcome>>

EngineInsertFails(s) ==
    /\ InsertEnabled(Cur, s)
    /\ Install(ExecInsertFails(Cur, s))
    /\ outcome' = [op |-> "watch_ad", who |-> s, result |-> "OperationalError"]
    /\ UNCHANGED <<beside, session, since_gate>>

\* commit(), the return, and the caller's lines 398-400.
EngineCommit(s) ==
    /\ CommitEnabled(Cur, s)
    /\ Install(ExecCommit(Cur, s))
    /\ session' = [session EXCEPT ![s] = AfterShowAds(session[s], TRUE)]
    /\ since_gate' = [since_gate EXCEPT ![s] = @ + 1]
    /\ outcome' = [op |-> "watch_ad", who |-> s, result |-> "ok"]
    /\ UNCHANGED beside

EngineDrop(s) ==
    /\ DropEnabled(Cur, s)
    /\ Install(ExecDrop(Cur, s))
    /\ UNCHANGED <<beside, session, since_gate, outcome>>

\* Two sessions, on one device token or on two, calling the reward engine
\* concurrently.  The other flows' INSERTs are writers too: they run once the
\* write lock is free.
NextConcurrent ==
    \/ db_lock = NoLock /\ FirstVisit("s1", "t1")
    \/ db_lock = NoLock /\ \E tok \in Tokens : FirstVisit("s2", tok)
    \/ \E platform \in PlatformChoices, r \in FormSamples :
            /\ db_lock = NoLock
            /\ r.is_active = 1
            /\ AdminInsertConfig(platform, r.priority, r.is_active, r.ads_per_use, r.min_coins)
    \/ \E s \in Sessions : EngineBegin(s)
    \/ \E s \in Sessions : EngineUpdate(s)
    \/ \E s \in Sessions : EngineBusy(s)
    \/ \E s \in Sessions : EngineInsert(s)
    \/ \E s \in Sessions : EngineInsertFails(s)
    \/ \E s \in Sessions : EngineCommit(s)
    \/ \E s \in Sessions : EngineDrop(s)

SpecConcurrent == Init /\ [][NextConcurrent]_vars

\* ------------------------------------------- business settings (Settings tab)
\* Longest "Premium benefits" text sampled.
MaxText == 2

\* Characters of the file and of the benefits text that need a name.
Quote == "<quote>"
Backslash == "<backslash>"
Newline == "<newline>"
CheckMark == "<U+2705>"
\* Characters the "Premium benefits" text area is sampled from.
TextChars == {"N", Quote, Backslash, Newline, CheckMark}
TextInputs == UNION {[1..n -> TextChars] : n \in 0..MaxText}
\* Samples of the slider 0..5 and of the price input 0.99..99.99, in cents.
FreeTierChoices == {0, 5}
PriceChoices == {99, 450, 1205}

Digits == <<"0", "1", "2", "3", "4", "5", "6", "7", "8", "9">>
DigitChar(d) == Digits[d + 1]
IsDigit(c) == \E d \in 0..9 : Digits[d + 1] = c
DigitVal(c) == CHOOSE d \in 0..9 : Digits[d + 1] = c

\* int.__repr__: the decimal digits of n >= 0.
RECURSIVE IntText(_)
IntText(n) == IF n < 10 THEN <<DigitChar(n)>> ELSE IntText(n \div 10) \o <<DigitChar(n % 10)>>

\* float.__repr__ of a price of `cents` hundredths: the shortest decimal that
\* reads back as the same float (5.0, 4.5, 4.99, 12.05).
FloatText(cents) ==
    IntText(cents \div 100) \o <<".">> \o
        (IF cents % 10 = 0 THEN <<DigitChar((cents % 100) \div 10)>>
         ELSE <<DigitChar((cents % 100) \div 10), DigitChar(cents % 10)>>)

\* json's string escaping (ensure_ascii=True), character by character.
EscapeChar(c) ==
    CASE c = Quote     -> <<Backslash, Quote>>
      [] c = Backslash -> <<Backslash, Backslash>>
      [] c = Newline   -> <<Backslash, "n">>
      [] c = CheckMark -> <<Backslash, "u", "2", "7", "0", "5">>
      [] OTHER         -> <<c>>
RECURSIVE EscapeText(_)
EscapeText(t) == IF t = <<>> THEN <<>> ELSE EscapeChar(Head(t)) \o EscapeText(Tail(t))

JsonString(t) == <<Quote>> \o EscapeText(t) \o <<Quote>>

\* json.dump({"free_tier_ads": ..., "premium_price": ..., "premium_benefits": ...}, f)
\* with the default separators ", " and ": ".
JsonDump(free_tier_ads, premium_price, premium_benefits) ==
    <<"{">> \o JsonString(<<"free_tier_ads">>) \o <<": ">> \o IntText(free_tier_ads)
            \o <<", ">> \o JsonString(<<"premium_price">>) \o <<": ">> \o FloatText(premium_price)
            \o <<", ">> \o JsonString(<<"premium_benefits">>) \o <<": ">>
            \o JsonString(premium_benefits) \o <<"}">>

\* Mutant: the file opened for update ('r+'), written over in place.
WriteFileInPlace(old, data) ==
    [exists |-> TRUE,
     content |-> data \o SubSeq(old.content, Len(data) + 1, Len(old.content))]

\* open(name, 'w') ... write: the file is truncated, then holds what was written.
WriteFile(old, data) == [exists |-> TRUE, content |-> data]

\* "Save Business Settings" (lines 311-326).
SaveBusinessSettings(free_tier_ads, premium_price, premium_benefits) ==
    /\ LET data == JsonDump(free_tier_ads, premium_price, premium_benefits)
           old == files["business_config.json"]
       IN  /\ files' = [files EXCEPT !["business_config.json"] = WriteFile(old, data)]
           /\ saved' = [made |-> TRUE, free_tier_ads |-> free_tier_ads,
                        premium_price |-> premium_price,
                        premium_benefits |-> premium_benefits,
                        shrunk |-> Len(data) < Len(old.content)]
    /\ outcome' = [op |-> "save_settings", who |-> "admin", result |-> "ok"]
    /\ UNCHANGED <<store, session, now, history, call,
                   env_password, admin_pass, db_lock, conn>>

SettingsStep ==
    \E free_tier_ads \in FreeTierChoices, premium_price \in PriceChoices,
       premium_benefits \in TextInputs :
        SaveBusinessSettings(free_tier_ads, premium_price, premium_benefits)

\* The Settings tab's form alone.
NextSettings == SettingsStep

SpecSettings == Init /\ [][NextSettings]_vars

\* --------------------------------------- the dashboard behind its password
\* os.getenv("ADMIN_PASSWORD", "admin123")
DefaultPassword == "admin123"
ConfiguredPassword ==
    IF env_password.set THEN env_password.value ELSE DefaultPassword

\* Mutant: the dashboard rendered whatever was entered.
AuthorizedAny(entered) == TRUE

\* The test of line 171, of the password entered in the sidebar.
Authorized(entered) == entered = ConfiguredPassword

\* Values of the ADMIN_PASSWORD variable (unset, empty, set), and entries of
\* the password input.
EnvChoices == {EnvUnset, [set |-> TRUE, value |-> ""], [set |-> TRUE, value |-> "s3cret"]}
PasswordInputs == {"", "admin123", "s3cret"}

\* Typing into the "Admin Password" input: a render cycle with the new value,
\* which ends at the unauthorized message or shows the dashboard.
EnterAdminPassword(entered) ==
    /\ admin_pass' = entered
    /\ outcome' = [op |-> "admin_password", who |-> "admin",
                   result |-> IF Authorized(entered) THEN "dashboard" ELSE "unauthorized"]
    /\ UNCHANGED <<store, session, now, history, call,
                   files, saved, env_password, db_lock, conn>>

\* "Export All User Data" (lines 289-301): users.csv and captions.csv hold the
\* tables' rows, the archive holds both.
ExportAllUserData ==
    /\ users # <<>>
    /\ files' = [files EXCEPT
            !["users.csv"] = WriteFile(@, users),
            !["captions.csv"] = WriteFile(@, captions),
            !["user_data_export.zip"] = WriteFile(@, <<users, captions>>)]
    /\ outcome' = [op |-> "export", who |-> "admin", result |-> "ok"]
    /\ UNCHANGED <<store, session, now, history, call,
                   saved, env_password, admin_pass, db_lock, conn>>

\* "Backup Database" (lines 330-336): backup.sql holds conn.iterdump(), the
\* statements that rebuild the four tables.
BackupDatabase ==
    /\ files' = [files EXCEPT
            !["backup.sql"] = WriteFile(@, <<users, ad_configs, ad_events, captions>>)]
    /\ outcome' = [op |-> "backup", who |-> "admin", result |-> "ok"]
    /\ UNCHANGED <<store, session, now, history, call,
                   saved, env_password, admin_pass, db_lock, conn>>

\* A render cycle of the dashboard that stops at line 172-173.
AdminUnauthorized ==
    /\ outcome' = [op |-> "admin_render", who |-> "admin", result |-> "unauthorized"]
    /\ UNCHANGED <<store, session, now, history, call, others>>

\* Form values used beside the password.
AuthSamples == {r \in FormSamples : r.priority = 1 /\ r.ads_per_use = 1}
AuthTexts == {<<>>, <<"N">>}

\* A render cycle of enterprise_admin_dashboard that handles a press, with the
\* password the input holds.
AdminDashboard ==
    \/ ~Authorized(admin_pass) /\ AdminUnauthorized
    \/ Authorized(admin_pass) /\ ConfigStep(AuthSamples)
    \/ Authorized(admin_pass) /\ GrantStep
    \/ Authorized(admin_pass) /\
            \E premium_benefits \in AuthTexts : SaveBusinessSettings(0, 99, premium_benefits)
    \/ Authorized(admin_pass) /\ ExportAllUserData
    \/ Authorized(admin_pass) /\ BackupDatabase

InitAuth ==
    /\ users = <<>>
    /\ ad_configs = <<>>
    /\ ad_events = <<>>
    /\ captions = <<>>
    /\ session = [s \in Sessions |-> FreshSession]
    /\ now = 1
    /\ outcome = NoOutcome
    /\ granted = [u \in UserIds |-> 0]
    /\ earned = [u \in UserIds |-> 0]
    /\ completed = [u \in UserIds |-> 0]
    /\ since_gate = [s \in Sessions |-> 0]
    /\ call = NoCall
    /\ files = [f \in FileNames |-> NoFile]
    /\ saved = NoSave
    /\ env_password \in EnvChoices
    /\ admin_pass = ""
    /\ db_lock = NoLock
    /\ conn = [s \in Sessions |-> NoConn]

NextAuth ==
    \/ FirstVisit("s1", "t1")
    \/ \E entered \in PasswordInputs : EnterAdminPassword(entered)
    \/ AdminDashboard

SpecAuth == InitAuth /\ [][NextAuth]_vars

\* ------------------------------------------------ generate_caption, alone
\* A model description: `ws` joined by `sep`, after `lead`.
Describe(ws, sep, lead) == lead \o Join(ws, sep)

\* The model returns at least one word.
WordSeqs == UNION {[1..n -> WordSamples] : n \in 1..MaxWords}
DescInputs ==
    {Describe(ws, sep, lead) : ws \in WordSeqs, sep \in SepSamples, lead \in LeadSamples}

Pending == [pending |-> TRUE]

InitCaption ==
    /\ users = <<>>
    /\ ad_configs = <<>>
    /\ ad_events = <<>>
    /\ captions = <<>>
    /\ session = [s \in Sessions |-> FreshSession]
    /\ now = 1
    /\ outcome = NoOutcome
    /\ granted = [u \in UserIds |-> 0]
    /\ earned = [u \in UserIds |-> 0]
    /\ completed = [u \in UserIds |-> 0]
    /\ since_gate = [s \in Sessions |-> 0]
    /\ \E result \in DescInputs, style \in StyleInputs :
            call = [result |-> result, style |-> style, returned |-> Pending]
    /\ InitOthers

CallGenerateCaption ==
    /\ call.returned = Pending
    /\ call' = [call EXCEPT !.returned = generate_caption(call.result, call.style)]
    /\ UNCHANGED <<store, session, now, outcome, history, others>>

NextCaption == CallGenerateCaption

SpecCaption == InitCaption /\ [][NextCaption]_vars

\* =================================================================== claims
\* The users row of session s: the row holding its device token.
RowOf(s) == UserIdOf(session[s].device_id)

\* The positions of the active ad_configs rows.
ActiveIds == {i \in 1..Len(ad_configs) : ad_configs[i].is_active = 1}

\* The sum of f over the positions 1..n of a table.
RECURSIVE SumTo(_, _)
SumTo(f, n) == IF n = 0 THEN 0 ELSE f[n] + SumTo(f, n - 1)

\* C1: a caption request whose 1-based index in the session is not a multiple
\* of 3 (request k is made with k-1 captions generated) is never blocked: its
\* Generate button is enabled whatever ads_watched and ads_required are, the
\* very first request of a fresh session included.
C1_NonThirdRequestNeverBlocked ==
    \A s \in Sessions :
        (Has(session[s], "device_id") /\ (session[s].caption_count + 1) % 3 # 0)
            => \A ads_required \in AdsRequiredChoices(ad_configs) :
                    ~GenerateDisabled(session[s], ads_required)

C3_CoinsAndAdsAfterCompletions ==
    \A u \in 1..Len(users) :
        /\ users[u].coins = granted[u] + earned[u]
        /\ users[u].ad_watched = completed[u]

\* C3 witness: two completions for one user that selected platforms of
\* different min_coins.
C3_Witness ==
    \E u \in 1..Len(users) :
        completed[u] = 2 /\ earned[u] = 3 /\ users[u].ad_watched = 2

\* The sum of coins_earned over the ad_events rows of users id u, and their number.
EventCoins(u) ==
    SumTo([i \in 1..Len(ad_events) |->
              IF ad_events[i].user_id = u THEN ad_events[i].coins_earned ELSE 0],
          Len(ad_events))
EventCount(u) == Cardinality({i \in 1..Len(ad_events) : ad_events[i].user_id = u})

\* C4 as stated: in every reachable state each user's coins equals the sum of
\* coins_earned over the user's ad_events rows, and ad_watched their number.
C4_CoinsEqualAdEvents ==
    \A u \in 1..Len(users) :
        /\ users[u].coins = EventCoins(u)
        /\ users[u].ad_watched = EventCount(u)

\* C4 amended: each user's coins equals the sum of coins_earned over the user's
\* ad_events rows plus the coins the admin's grants added to that user, and
\* ad_watched equals the number of those rows.
C4_CoinsEqualAdEventsPlusGrants ==
    \A u \in 1..Len(users) :
        /\ users[u].coins = EventCoins(u) + granted[u]
        /\ users[u].ad_watched = EventCount(u)

\* C4 witness: a user with an ad_events row and an admin grant, beside another
\* user with neither.
C4_Witness ==
    \E u, v \in 1..Len(users) :
        /\ EventCount(u) >= 1 /\ granted[u] >= 1
        /\ EventCount(v) = 0 /\ granted[v] = 0 /\ users[v].coins = 0

\* C5: every press of Generate while it is enabled, with the model returning
\* a description, ends with exactly one new captions row linked to the
\* session's user, that user's caption_count increased by 1 and last_active
\* stamped, and the session's caption count increased by 1.  (Presses on which
\* generate_caption itself raises are left aside here: see C17.)
C5_GenerateAddsOneCaption ==
    [][ (outcome'.op = "generate" /\ outcome'.result # "IndexError") =>
          LET s == outcome'.who
              u == RowOf(s)
          IN  /\ Len(captions') = Len(captions) + 1
              /\ captions'[Len(captions')].user_id = u
              /\ users'[u].caption_count = users[u].caption_count + 1
              /\ users'[u].last_active = now
              /\ session'[s].caption_count = session[s].caption_count + 1 ]_vars

\* C6: when no ad_configs row is active, show_ads_to_user returns the failure
\* pair and changes nothing: no users row is credited, no ad_events row is
\* appended, no current_ad is recorded, and the caller leaves the session's
\* coins and ads-watched count as they were.
C6_NoPlatformChangesNothing ==
    [][ (/\ ActiveIds = {}
         /\ outcome'.op = "watch_ad"
         /\ outcome'.result # "AttributeError")
        => /\ outcome'.result = "no_platforms"
           /\ users' = users
           /\ ad_events' = ad_events
           /\ session' = session ]_vars

\* C6 witness: a session whose show_ads_to_user call got the failure pair, with
\* rows in ad_configs but none active, after an earlier call had succeeded.
C6_Witness ==
    \E s \in Sessions :
        /\ outcome = [op |-> "watch_ad", who |-> s, result |-> "no_platforms"]
        /\ ad_configs # <<>>
        /\ ActiveIds = {}
        /\ session[s].ads_watched = 1
        /\ ad_events # <<>>

\* The active rows no active row precedes in priority.
LowestActiveIds ==
    {i \in ActiveIds : \A j \in ActiveIds : ad_configs[i].priority <= ad_configs[j].priority}

\* C7: the ads-required value the gate uses is the ads_per_use of the active
\* ad_configs row with the smallest priority number (of any such row, when
\* several share it), and 1 when no row is active; inactive rows never
\* influence it.
C7_AdsRequiredFromLowestActive ==
    AdsRequiredChoices(ad_configs) =
        (IF ActiveIds = {} THEN {1}
         ELSE {ad_configs[i].ads_per_use : i \in LowestActiveIds})

\* C7 witness: an inactive row of smaller priority number and another
\* ads_per_use than the one active row, whose ads_per_use is the value used.
C7_Witness ==
    \E i, j \in 1..Len(ad_configs) :
        /\ ad_configs[i].is_active = 0 /\ ad_configs[j].is_active = 1
        /\ ad_configs[i].priority < ad_configs[j].priority
        /\ ad_configs[i].ads_per_use # ad_configs[j].ads_per_use
        /\ AdsRequiredChoices(ad_configs) = {ad_configs[j].ads_per_use}

\* The row the admin form inserted last.
Inserted == ad_configs[Len(ad_configs)]

\* Whether list p holds row r after every row of smaller priority and before
\* every row of greater priority.
PlacedByPriority(p, r) ==
    \E k \in 1..Len(p) :
        /\ p[k] = r
        /\ \A m \in 1..Len(p) :
              /\ p[m].priority < r.priority => m < k
              /\ p[m].priority > r.priority => m > k

\* Whether list p is exactly the active rows, in ascending priority order.
ActiveAscending(p) ==
    /\ Len(p) = Cardinality(ActiveIds)
    /\ {p[k] : k \in 1..Len(p)} = {ad_configs[i] : i \in ActiveIds}
    /\ \A a, b \in 1..Len(p) : a < b => p[a].priority <= p[b].priority

\* C8 as stated: after any insert through the admin form,
\* get_active_ad_platforms returns the inserted config, placed by its priority.
C8_InsertedIsReturned ==
    outcome.op = "insert_config" =>
        /\ get_active_ad_platforms(ad_configs) # {}
        /\ \A p \in get_active_ad_platforms(ad_configs) :
                PlacedByPriority(p, Inserted) /\ ActiveAscending(p)

\* C8 amended: after an insert through the admin form with "Activate
\* Platform" checked, get_active_ad_platforms returns the inserted config,
\* after every returned config of smaller priority and before every one of
\* greater priority; and the returned list is always exactly the active rows
\* in ascending priority order.
C8_ActiveInsertedIsReturned ==
    /\ get_active_ad_platforms(ad_configs) # {}
    /\ \A p \in get_active_ad_platforms(ad_configs) :
            /\ ActiveAscending(p)
            /\ (outcome.op = "insert_config" /\ Inserted.is_active = 1)
                    => PlacedByPriority(p, Inserted)

\* C8 witness: an active config just inserted with a smaller priority number
\* than an active row inserted before it.
C8_Witness ==
    /\ outcome.op = "insert_config"
    /\ Len(ad_configs) >= 2
    /\ Inserted.is_active = 1
    /\ \E i \in ActiveIds : ad_configs[i].priority > Inserted.priority

\* ------------------------------------------------ C9, C10: generate_caption
\* A generate_caption call that has ended, by a return or by an exception.
Ended == Returned(call.returned) \/ Raised(call.returned)

\* C9: for every style selector that is not one of the six styles and every
\* model description, generate_caption returns a pair whose caption text is
\* the one it returns for the style Smart on that description.
C9_UnknownStyleFallsBackToSmart ==
    (Ended /\ call.style \notin StyleNames) =>
        LET smart == generate_caption(call.result, "Smart")
        IN  /\ Returned(call.returned)
            /\ Returned(smart)
            /\ call.returned.caption = smart.caption

\* C9, where the call returns: whenever a call with a selector outside the
\* six styles returns, its caption is the capitalized description, and a call
\* with such a selector ends exactly as the call for Smart does (the same pair
\* or the same exception).
C9_FallbackWhereReturned ==
    (Ended /\ call.style \notin StyleNames) =>
        /\ call.returned = generate_caption(call.result, "Smart")
        /\ Returned(call.returned) => call.returned.caption = Capitalize(call.result)

\* A returned call with an unknown selector whose caption differs from the
\* description and from the other renderings.
C9_ReturnedCase ==
    /\ Returned(call.returned)
    /\ call.style = "Unknown"
    /\ call.returned.caption # call.result
    /\ call.returned.caption = Capitalize(call.result)

\* The whitespace-separated words of text t, read off t position by position:
\* a word starts at a non-space the text begins with or a space precedes, and
\* runs to the last non-space before the next space.
WordStarts(t) ==
    {a \in 1..Len(t) : ~IsSpace(t[a]) /\ (a = 1 \/ IsSpace(t[a - 1]))}
WordEnd(t, a) ==
    CHOOSE b \in a..Len(t) :
        /\ \A i \in a..b : ~IsSpace(t[i])
        /\ (b = Len(t) \/ IsSpace(t[b + 1]))
WordAt(t, k) ==
    LET a == CHOOSE x \in WordStarts(t) :
                 Cardinality({y \in WordStarts(t) : y <= x}) = k
    IN  SubSeq(t, a, WordEnd(t, a))
WordCount(t) == Cardinality(WordStarts(t))

\* The indices of the words of t longer than three characters, and the index
\* of the k-th of them.
LongIndices(t) == {j \in 1..WordCount(t) : Len(WordAt(t, j)) > 3}
LongIndex(t, k) ==
    CHOOSE j \in LongIndices(t) : Cardinality({i \in LongIndices(t) : i <= j}) = k

\* Whether hashtag string h is, tag by tag, '#' plus each of the first five
\* words of description t longer than three characters, in source order,
\* followed by exactly #InstaAI and #SocialMedia.
HashtagShape(t, h) ==
    LET n == WordCount(h)
        derived == n - 2
        long == Cardinality(LongIndices(t))
    IN  /\ n >= 2
        /\ WordAt(h, n - 1) = <<"#InstaAI">>
        /\ WordAt(h, n) = <<"#SocialMedia">>
        /\ derived <= 5
        /\ derived = (IF long < 5 THEN long ELSE 5)
        /\ \A k \in 1..derived :
              /\ WordAt(h, k) = <<"#">> \o WordAt(t, LongIndex(t, k))
              /\ Len(WordAt(h, k)) > 4

\* C10: for every model description, generate_caption returns a hashtag string
\* that consists of at most five derived tags followed by exactly the two
\* fixed tags; the derived tags are, in source order, '#' plus each of the
\* first five whitespace-separated words longer than three characters.
C10_HashtagsAreDerivedTags ==
    Ended => /\ Returned(call.returned)
             /\ HashtagShape(call.result, call.returned.hashtags)

\* C10, where the call returns: every hashtag string generate_caption returns
\* has that shape.
C10_HashtagsWhereReturned ==
    Returned(call.returned) => HashtagShape(call.result, call.returned.hashtags)

\* A returned call on a description with six words longer than three
\* characters: five derived tags.
C10_ReturnedCase ==
    /\ Returned(call.returned)
    /\ Cardinality(LongIndices(call.result)) = 6
    /\ WordCount(call.returned.hashtags) = 7

\* A returned call on a description whose first word is too short to be
\* tagged and whose second is tagged first.
C10_ShortWordCase ==
    /\ Returned(call.returned)
    /\ WordCount(call.result) >= 2
    /\ Len(WordAt(call.result, 1)) = 3
    /\ WordAt(call.returned.hashtags, 1) = <<"#">> \o WordAt(call.result, 2)

\* ------------------------------------------------ C11: the settings file
\* json.load of a file's content: the members of the one object it holds, in
\* order.  No statement of the program reads business_config.json back; this
\* is the reload the settings round trip speaks of.
ParseFail == [ok |-> FALSE, text |-> <<>>, num |-> 0, kind |-> "", next |-> 0]

RECURSIVE ScanString(_, _, _)
ScanString(t, i, acc) ==
    IF i > Len(t) THEN ParseFail
    ELSE IF t[i] = Quote
         THEN [ok |-> TRUE, text |-> acc, num |-> 0, kind |-> "string", next |-> i + 1]
    ELSE IF t[i] = Newline THEN ParseFail
    ELSE IF t[i] # Backslash THEN ScanString(t, i + 1, Append(acc, t[i]))
    ELSE IF i + 1 > Len(t) THEN ParseFail
    ELSE IF t[i + 1] = Quote THEN ScanString(t, i + 2, Append(acc, Quote))
    ELSE IF t[i + 1] = Backslash THEN ScanString(t, i + 2, Append(acc, Backslash))
    ELSE IF t[i + 1] = "n" THEN ScanString(t, i + 2, Append(acc, Newline))
    ELSE IF t[i + 1] = "u" /\ i + 5 <= Len(t) /\ SubSeq(t, i + 2, i + 5) = <<"2", "7", "0", "5">>
         THEN ScanString(t, i + 6, Append(acc, CheckMark))
    ELSE ParseFail

ParseString(t, i) ==
    IF i <= Len(t) /\ t[i] = Quote THEN ScanString(t, i + 1, <<>>) ELSE ParseFail

\* The end of the run of digits starting at i (i - 1 when there is none).
RECURSIVE DigitsEnd(_, _)
DigitsEnd(t, i) == IF i <= Len(t) /\ IsDigit(t[i]) THEN DigitsEnd(t, i + 1) ELSE i - 1

RECURSIVE DigitsValue(_, _, _)
DigitsValue(t, a, b) ==
    IF a > b THEN 0 ELSE DigitsValue(t, a, b - 1) * 10 + DigitVal(t[b])

\* A JSON number: an int, or a float with one or two decimals, read in cents.
ParseNumber(t, i) ==
    LET e == DigitsEnd(t, i)
    IN  IF e < i THEN ParseFail
        ELSE IF e + 1 <= Len(t) /\ t[e + 1] = "."
        THEN LET f == DigitsEnd(t, e + 2)
                 n == f - (e + 1)
             IN  IF n = 1
                 THEN [ok |-> TRUE, text |-> <<>>, kind |-> "float", next |-> f + 1,
                       num |-> DigitsValue(t, i, e) * 100 + DigitVal(t[f]) * 10]
                 ELSE IF n = 2
                 THEN [ok |-> TRUE, text |-> <<>>, kind |-> "float", next |-> f + 1,
                       num |-> DigitsValue(t, i, e) * 100 + DigitsValue(t, e + 2, f)]
                 ELSE ParseFail
        ELSE [ok |-> TRUE, text |-> <<>>, kind |-> "int", next |-> e + 1,
              num |-> DigitsValue(t, i, e)]

ParseValue(t, i) ==
    IF i <= Len(t) /\ t[i] = Quote THEN ParseString(t, i) ELSE ParseNumber(t, i)

LoadFail == [ok |-> FALSE, members |-> <<>>]

RECURSIVE ParseMembers(_, _, _)
ParseMembers(t, i, acc) ==
    LET k == ParseString(t, i)
    IN  IF ~k.ok \/ k.next > Len(t) \/ t[k.next] # ": " THEN LoadFail
        ELSE LET v == ParseValue(t, k.next + 1)
                 got == Append(acc, [key |-> k.text, kind |-> v.kind,
                                     num |-> v.num, text |-> v.text])
             IN  IF ~v.ok \/ v.next > Len(t) THEN LoadFail
                 ELSE IF t[v.next] = ", " THEN ParseMembers(t, v.next + 1, got)
                 ELSE IF t[v.next] = "}" /\ v.next = Len(t)
                      THEN [ok |-> TRUE, members |-> got]
                 ELSE LoadFail

JsonLoad(file) ==
    IF ~file.exists \/ file.content = <<>> \/ file.content[1] # "{" THEN LoadFail
    ELSE ParseMembers(file.content, 2, <<>>)

\* C11: after any sequence of business-settings saves, reloading the settings
\* file yields exactly the three fields free_tier_ads, premium_price and
\* premium_benefits, in that order, with the values of the last save, and
\* nothing of an earlier save.
C11_ReloadYieldsLastSave ==
    saved.made =>
        LET r == JsonLoad(files["business_config.json"])
        IN  /\ r.ok
            /\ Len(r.members) = 3
            /\ r.members[1].key = <<"free_tier_ads">>
            /\ r.members[1].kind = "int"
            /\ r.members[1].num = saved.free_tier_ads
            /\ r.members[2].key = <<"premium_price">>
            /\ r.members[2].kind = "float"
            /\ r.members[2].num = saved.premium_price
            /\ r.members[3].key = <<"premium_benefits">>
            /\ r.members[3].kind = "string"
            /\ r.members[3].text = saved.premium_benefits

\* C11 witness: a save that wrote less than the file held before, of a text
\* with a quote and a newline in it, read back as saved.
C11_Witness ==
    /\ saved.made
    /\ saved.shrunk
    /\ saved.premium_benefits = <<Quote, Newline>>
    /\ JsonLoad(files["business_config.json"]).ok
    /\ JsonLoad(files["business_config.json"]).members[3].text = <<Quote, Newline>>

\* ------------------------------------------------ C12: the admin password
\* C12: in a render cycle of the dashboard in which the entered password
\* differs from the configured value (ADMIN_PASSWORD, or the placeholder
\* admin123 when it is unset) no admin effect occurs: the cycle ends at the
\* unauthorized message with the four tables and every file unchanged.
C12_NoEffectWithoutPassword ==
    [][ (/\ outcome'.who = "admin"
         /\ admin_pass' # (IF env_password.set THEN env_password.value ELSE "admin123"))
        => /\ outcome'.result = "unauthorized"
           /\ store' = store
           /\ files' = files
           /\ saved' = saved ]_vars

\* C12 witness: a cycle that ended at the unauthorized message with the
\* placeholder entered while ADMIN_PASSWORD is set to something else, after
\* authorized cycles had inserted a config and written the settings file.
C12_Witness ==
    /\ outcome.who = "admin"
    /\ outcome.result = "unauthorized"
    /\ env_password.set
    /\ admin_pass = "admin123"
    /\ ad_configs # <<>>
    /\ files["business_config.json"].exists

\* The engine calls of d that returned True.
ReturnedTrue(d) == {s \in Sessions : d.conn[s].pc = "done"}

\* Whether the store of d misses a completion: some user's ad_watched or coins
\* differs from what the engine calls that returned True for that user add up to.
LostIncrement(d) ==
    \E u \in 1..Len(d.users) :
        \/ d.users[u].ad_watched # d.completed[u]
        \/ d.users[u].coins # d.earned[u]

\* Two engine calls for one users id, both with the ad shown and nothing written.
BothShown ==
    /\ \A s \in Sessions : conn[s].pc = "shown"
    /\ \A s, t \in Sessions : conn[s].user_id = conn[t].user_id

\* C13 as stated: two concurrent show_ads_to_user invocations for one user have
\* an interleaving of their statements after which both have completed and the
\* user's coins or ad_watched in the store reflects only one of them.
C13_SomeInterleavingLosesAnIncrement ==
    BothShown =>
        \E d \in Interleavings({Cur}) : ReturnedTrue(d) = Sessions /\ LostIncrement(d)

\* C13 amended: no interleaving of concurrent show_ads_to_user invocations
\* loses an increment.  In every state the store's ad_watched and coins of each
\* user are those of all the engine calls that have returned True for that
\* user; the second writer waits for the first one's commit, or raises
\* OperationalError without having completed.
C13_NoInterleavingLosesAnIncrement == ~LostIncrement(Cur)

\* C13 witness: two engine calls for one user have both returned True, one of
\* them having run its UPDATE while the other had shown its ad and not yet
\* written, and the user's row holds both completions.
C13_Witness ==
    /\ \A s \in Sessions : conn[s].pc = "done" /\ conn[s].user_id = 1
    /\ \E s \in Sessions : conn[s].overlap
    /\ completed[1] = 2
    /\ users[1].ad_watched = 2
    /\ users[1].coins = earned[1]

\* The number of ad_events rows of users id u in the table evs.
EventCountIn(evs, u) == Cardinality({i \in 1..Len(evs) : evs[i].user_id = u})

\* Whether the committed store of d credits a user for a completion that has
\* no ad_events row.
CreditWithoutEvent(d) ==
    \E u \in 1..Len(d.users) : d.users[u].ad_watched > EventCountIn(d.ad_events, u)

\* C14 as stated: the reward sequence is not atomic; from a call that has
\* shown its ad and not yet written, a committed store state is reachable (while the call runs, or
\* after its second statement failed) in which a user is credited for a
\* completion that has no ad_events row.
C14_CreditWithoutEventReachable ==
    (\E s \in Sessions : conn[s].pc = "shown")
        => \E d \in Interleavings({Cur}) : CreditWithoutEvent(d)

\* C14 amended: the reward sequence is atomic in the committed store.  The
\* UPDATE and the INSERT run in one sqlite3 transaction that commit() ends, so
\* every step that changes a user's committed ad_watched or coins also appends
\* that user's ad_events row, and a failed INSERT leaves neither behind.
C14_CreditAndEventCommitTogether ==
    [][ \A u \in 1..Len(users) :
            (Len(users') = Len(users) /\ users'[u] # users[u])
            => /\ users'[u].ad_watched = users[u].ad_watched + 1
               /\ Len(ad_events') = Len(ad_events) + 1
               /\ ad_events'[Len(ad_events')].user_id = u
               /\ users'[u].coins = users[u].coins + ad_events'[Len(ad_events')].coins_earned
      ]_vars

\* C14 witness: a call whose UPDATE ran and whose INSERT raised, still holding
\* its uncommitted credit, while the committed row is uncredited and another
\* session's call has committed its own credit and row.
C14_Witness ==
    \E s, t \in Sessions :
        /\ conn[s].pc = "failed" /\ db_lock = s
        /\ conn[s].users[conn[s].user_id].ad_watched
               = users[conn[s].user_id].ad_watched + 1
        /\ ~CreditWithoutEvent(Cur)
        /\ conn[t].pc = "done" /\ Len(ad_events) = 1

\* ------------------------------------------- C15: session fields read unset
\* C15: every session-state field the end-user flow reads has been assigned
\* earlier in the session, so no Watch Ad press and no Generate press ends in
\* an undefined-field error (AttributeError on st.session_state).
C15_NoUndefinedFieldRead ==
    outcome.op \in {"generate", "watch_ad"} => outcome.result # "AttributeError"

\* ------------------------------------------------- C16: no session is stuck
\* The largest value of the "Ads required per use" slider.
MaxAdsPerUse == 5

\* Whether Generate is enabled for session state ss under the configuration
\* cfgs, or becomes enabled after at most k of the session's own Watch Ad
\* presses: a press exists only where the buttons are rendered, and counts
\* only when it gets through to a successful show_ads_to_user.
RECURSIVE Unlockable(_, _, _)
Unlockable(ss, cfgs, k) ==
    \/ \E ads_required \in AdsRequiredChoices(cfgs) : ~GenerateDisabled(ss, ads_required)
    \/ /\ k > 0
       /\ NeedsAds(ss)
       /\ \E ads_required \in AdsRequiredChoices(cfgs) : ads_required >= 1
       /\ Has(ss, "user_id")
       /\ \E platforms \in get_active_ad_platforms(cfgs) :
             /\ platforms # <<>>
             /\ Unlockable(AfterShowAds(RecordCurrentAd(ss, platforms[1]), TRUE), cfgs, k - 1)

\* C16: no session is permanently stuck.  In every reachable state, for every
\* session that has made its first visit, Generate is enabled or becomes
\* enabled after finitely many of that session's own Watch Ad presses,
\* whatever the ad configuration and also at caption count 0.
C16_NoSessionStuck ==
    \A s \in Sessions :
        Has(session[s], "device_id") => Unlockable(session[s], ad_configs, MaxAdsPerUse + 1)

\* --------------------------------------- C17: generate_caption always returns
\* C17: generate_caption returns a (caption, hashtags) pair for every
\* non-empty description and every style selector; building the six
\* renderings never fails, a description without a space included.
C17_EveryCallReturnsAPair ==
    (Ended /\ call.result # <<>>) =>
        /\ ~Raised(call.returned)
        /\ {"caption", "hashtags"} \subseteq DOMAIN call.returned

\* ------------------------------------------ C18: session counters and store
\* C18: at every point between user actions the session's coins, caption
\* count and ads-watched count equal the coins, caption_count and ad_watched
\* columns of the session's users row.
C18_SessionMirrorsStore ==
    \A s \in Sessions :
        Has(session[s], "device_id") =>
            LET u == RowOf(s)
            IN  /\ u \in 1..Len(users)
                /\ session[s].coins = users[u].coins
                /\ session[s].caption_count = users[u].caption_count
                /\ session[s].ads_watched = users[u].ad_watched

\* ------------------------------------------------ C19: device token collision
\* C19: a first visit that derives a token some users row already holds is
\* silent: the registration raises no error and creates no second row, and
\* the session is left on the shared row.
C19_CollisionIsSilent ==
    [][ \A s \in Sessions :
          (/\ outcome'.op = "first_visit" /\ outcome'.who = s
           /\ ~Has(session[s], "device_id")
           /\ UserIdOf(session'[s].device_id) # 0)
          => /\ outcome'.result = "ok"
             /\ Len(users') = Len(users)
             /\ RowOf(s)' = UserIdOf(session'[s].device_id) ]_vars

====
